---- MODULE Spec2Model ----
(***************************************************************************)
(* The five Vault database modules of community.hashi_vault                *)
(*   vault_database_connection_configure, vault_database_connection_read,  *)
(*   vault_database_rotate_root_credentials,                               *)
(*   vault_database_static_role_create, vault_database_static_role_read    *)
(* as one state machine.  One invocation of a module runs run_module()     *)
(* block by block: construction and the hvac import check, the             *)
(* authentication try block, the remote call, and the except handlers      *)
(* together with the normalisation of the response.  fail_json and         *)
(* exit_json emit the terminal result and leave the process; an exception  *)
(* no handler catches leaves run_module without a result.  The Vault       *)
(* server's database configuration persists from one invocation to the     *)
(* next.                                                                   *)
(***************************************************************************)
EXTENDS Integers, Sequences, FiniteSets, TLC

\* Number of module invocations a behaviour runs one after the other.
MaxInvocations == 2

\* ------------------------------------------------------------------------
\* Values

\* Python's None (an option left unset, a field not given).
None == "$None"

ConfigureModule == "vault_database_connection_configure"
ConnectionReadModule == "vault_database_connection_read"
RotateModule == "vault_database_rotate_root_credentials"
RoleCreateModule == "vault_database_static_role_create"
RoleReadModule == "vault_database_static_role_read"

Modules ==
  {ConfigureModule, ConnectionReadModule, RotateModule, RoleCreateModule, RoleReadModule}

WriteModules == {ConfigureModule, RotateModule, RoleCreateModule}
ReadModules == {ConnectionReadModule, RoleReadModule}

\* Mount paths of database secrets engines the playbooks name.
Paths == {"database", "db1"}
\* The mount point hvac uses when the caller passes none.
DEFAULT_MOUNT_POINT == "database"
ConnectionNames == {"MyName"}
RoleNames == {"SomeRole"}
Passwords == {"SomePass", "OtherPass"}

\* Status codes a response that hvac returns (rather than raises for) can carry.
StatusCodes == {200, 202, 204}

\* Exceptions the hvac database calls raise for a rejected request.
RemoteExceptions == {"Forbidden", "InvalidPath", "InvalidRequest"}

\* Outcomes of authenticator.validate() / authenticator.authenticate(client).
AuthOutcomes == {"ok", "NotImplementedError", "HashiVaultValueError", "VaultError"}

\* What a database call can hand back: a requests Response, a parsed JSON
\* mapping (with or without a 'data' key), or None.
Response(code) == [type |-> "Response", status_code |-> code, keys |-> {}]
Mapping(ks) == [type |-> "dict", status_code |-> 0, keys |-> ks]
NoneValue == [type |-> "NoneType", status_code |-> 0, keys |-> {}]
\* response.text of a Response, and a keyword argument that was not passed.
Text(r) == [type |-> "str", status_code |-> r.status_code, keys |-> {}]
Absent == [type |-> "absent", status_code |-> 0, keys |-> {}]

RawValues ==
  {Response(c) : c \in StatusCodes} \cup {Mapping({"data"}), Mapping({}), NoneValue}

\* A JSON object as the set of its <<key, JSON text of the value>> members.
Quote(str) == "\"" \o str \o "\""
JsonBool(b) == IF b THEN "true" ELSE "false"

\* ------------------------------------------------------------------------
\* Python semantics the modules rely on

Digits == <<"0", "1", "2", "3", "4", "5", "6", "7", "8", "9">>

\* str() of a non-negative int.
RECURSIVE IntToStr(_)
IntToStr(n) ==
  IF n < 10 THEN Digits[n + 1] ELSE IntToStr(n \div 10) \o Digits[(n % 10) + 1]

\* str() of a str or of None, as '%s' renders it.
StrOf(v) == IF v = None THEN "None" ELSE v

\* A format string is a sequence of pieces; the piece "%s" is a conversion.
Conversions(template) == {i \in DOMAIN template : template[i] = "%s"}

RECURSIVE Substitute(_, _)
Substitute(template, args) ==
  IF template = <<>> THEN <<>>
  ELSE IF Head(template) = "%s"
       THEN <<StrOf(Head(args))>> \o Substitute(Tail(template), Tail(args))
       ELSE <<Head(template)>> \o Substitute(Tail(template), args)

\* template % args: a TypeError unless there is one argument per conversion.
Format(template, args) ==
  IF Cardinality(Conversions(template)) # Len(args)
  THEN [raises |-> "TypeError", text |-> <<>>]
  ELSE [raises |-> "none", text |-> Substitute(template, args)]

\* v or d, on an option value and on a formatted message.
OrValue(v, d) == IF v = None \/ v = "" THEN d ELSE v
OrText(t, d) == IF \A i \in DOMAIN t : t[i] = "" THEN <<d>> ELSE t

\* bool(raw): a Response is true when ok, a mapping when non-empty, None never.
Truthy(r) ==
  CASE r.type = "Response" -> r.status_code < 400
    [] r.type = "dict" -> r.keys # {}
    [] OTHER -> FALSE

\* raw.status_code / raw.ok exist on a Response only.
HasStatus(r) == r.type = "Response"

\* The exception raw['data'] raises, or "none".
SubscriptData(r) ==
  CASE r.type = "dict" /\ "data" \in r.keys -> "none"
    [] r.type = "dict" -> "KeyError"
    [] OTHER -> "TypeError"

\* ------------------------------------------------------------------------
\* Terminal outcomes of run_module

\* No data= keyword was passed.
NoData == {}

fail_json(msg, site) ==
  [kind |-> "fail_json", msg |-> msg, changed |-> FALSE, data |-> NoData,
   raw |-> Absent, site |-> site]

exit_json(data, r, changed, site) ==
  [kind |-> "exit_json", msg |-> <<>>, changed |-> changed, data |-> data,
   raw |-> r, site |-> site]

\* An exception that leaves run_module: no result is emitted.
Unhandled(exc, site) ==
  [kind |-> "unhandled", msg |-> <<exc>>, changed |-> FALSE, data |-> NoData,
   raw |-> Absent, site |-> site]

\* fail_json with a formatted message; the formatting itself may raise.
FailFormatted(f, site) ==
  IF f.raises # "none" THEN Unhandled(f.raises, site) ELSE fail_json(f.text, site)

missing_required_lib(lib) == <<"Failed to import the required Python library (", lib, ")">>

\* ------------------------------------------------------------------------
\* State

VARIABLES
  module,         \* the module being run, None between invocations
  pc,             \* position in run_module
  check_mode,     \* module.check_mode
  HAS_HVAC,       \* whether import hvac succeeded
  has_rotate,     \* whether the hvac client has rotate_root_credentials
  params,         \* module.params
  authenticated,  \* validate() and authenticate(client) both returned
  auth_outcome,   \* how the authentication try block went, "none" before it
  requests,       \* database operations sent to Vault in this invocation
  raised,         \* exception the database call raised, "none" if it returned
  raw,            \* what the database call returned
  results,        \* results emitted by exit_json / fail_json in this invocation
  unhandled,      \* exception that left run_module, "none" otherwise
  server,         \* Vault's database configuration
  invocations,    \* invocations started so far
  previous        \* the invocation before this one, as the host saw it end

vars ==
  <<module, pc, check_mode, HAS_HVAC, has_rotate, params, authenticated, auth_outcome,
    requests, raised, raw, results, unhandled, server, invocations, previous>>

env == <<module, check_mode, HAS_HVAC, has_rotate, params, invocations, previous>>

NoParams ==
  [path |-> None, engine_mount_point |-> None, connection_name |-> None,
   role_name |-> None, connection_password |-> None]

\* module.params as the argspec of each module admits them.
ParamsOf(m) ==
  CASE m = ConfigureModule ->
         {[NoParams EXCEPT !.path = p, !.connection_name = c, !.connection_password = w] :
            p \in Paths, c \in ConnectionNames, w \in Passwords}
    [] m = ConnectionReadModule ->
         {[NoParams EXCEPT !.path = p, !.connection_name = c] :
            p \in Paths, c \in ConnectionNames}
    [] m = RotateModule ->
         {[NoParams EXCEPT !.engine_mount_point = e, !.connection_name = c] :
            e \in Paths \cup {None}, c \in ConnectionNames}
    [] m = RoleCreateModule ->
         {[NoParams EXCEPT !.engine_mount_point = e, !.connection_name = c, !.role_name = r] :
            e \in Paths \cup {None}, c \in ConnectionNames, r \in RoleNames}
    [] m = RoleReadModule ->
         {[NoParams EXCEPT !.path = p, !.role_name = r] : p \in Paths, r \in RoleNames}

NoServer ==
  [connections |-> [p \in Paths |-> None], roles |-> {}, rotated |-> {}]

\* What an invocation was given and how it ended.
Summary ==
  [pc |-> pc, module |-> module, params |-> params, check_mode |-> check_mode,
   HAS_HVAC |-> HAS_HVAC, auth_outcome |-> auth_outcome, raised |-> raised,
   raw |-> raw, results |-> results, unhandled |-> unhandled]

NoPrevious ==
  [pc |-> "idle", module |-> None, params |-> NoParams, check_mode |-> FALSE,
   HAS_HVAC |-> TRUE, auth_outcome |-> "none", raised |-> "none",
   raw |-> NoneValue, results |-> <<>>, unhandled |-> "none"]

Init ==
  /\ module = None
  /\ pc = "idle"
  /\ check_mode = FALSE
  /\ HAS_HVAC = TRUE
  /\ has_rotate = TRUE
  /\ params = NoParams
  /\ authenticated = FALSE
  /\ auth_outcome = "none"
  /\ requests = <<>>
  /\ raised = "none"
  /\ raw = NoneValue
  /\ results = <<>>
  /\ unhandled = "none"
  /\ server = NoServer
  /\ invocations = 0
  /\ previous = NoPrevious

\* The host runs one of the modules `mods`: a fresh process with its
\* parameters and environment, once the process before it has ended.
Run(mods) ==
  /\ pc \in {"idle", "exited", "crashed"}
  /\ invocations < MaxInvocations
  /\ invocations' = invocations + 1
  /\ \E m \in mods :
       /\ module' = m
       /\ params' \in ParamsOf(m)
       /\ has_rotate' \in (IF m = RotateModule THEN BOOLEAN ELSE {TRUE})
  /\ check_mode' \in BOOLEAN
  /\ HAS_HVAC' \in BOOLEAN
  /\ pc' = "start"
  /\ authenticated' = FALSE
  /\ auth_outcome' = "none"
  /\ requests' = <<>>
  /\ raised' = "none"
  /\ raw' = NoneValue
  /\ results' = <<>>
  /\ unhandled' = "none"
  /\ UNCHANGED server

\* Any module is run.
Invoke ==
  /\ Run(Modules)
  /\ UNCHANGED previous

\* Connection configure is run again, the run before it kept for comparison.
InvokeConfigure ==
  /\ Run({ConfigureModule})
  /\ previous' = Summary

\* run_module ends: a result is emitted and the process exits, or the
\* exception propagates and no result is emitted.
Terminate(o) ==
  IF o.kind = "unhandled"
  THEN /\ pc' = "crashed"
       /\ unhandled' = o.msg[1]
       /\ UNCHANGED results
  ELSE /\ pc' = "exited"
       /\ results' = Append(results, o)
       /\ UNCHANGED unhandled

\* if not HAS_HVAC: module.fail_json(msg=missing_required_lib('hvac'), ...)
ImportCheck(next) ==
  IF ~HAS_HVAC
  THEN Terminate(fail_json(missing_required_lib("hvac"), "import"))
  ELSE pc' = next /\ UNCHANGED <<results, unhandled>>

\* Mutation of Authenticate: a caught authentication error is swallowed and
\* run_module goes on to the database call.
AuthenticateSwallowingErrors(outcome) ==
  CASE outcome = "ok" ->
         /\ pc' = "call"
         /\ authenticated' = TRUE
         /\ UNCHANGED <<results, unhandled>>
    [] outcome \in {"NotImplementedError", "HashiVaultValueError"} ->
         /\ pc' = "call"
         /\ UNCHANGED <<authenticated, results, unhandled>>
    [] OTHER ->
         /\ Terminate(Unhandled(outcome, "auth"))
         /\ UNCHANGED authenticated

\* try: validate(); authenticate(client)
\* except (NotImplementedError, HashiVaultValueError) as e: fail_json(msg=to_native(e))
Authenticate(outcome) ==
  CASE outcome = "ok" ->
         /\ pc' = "call"
         /\ authenticated' = TRUE
         /\ UNCHANGED <<results, unhandled>>
    [] outcome \in {"NotImplementedError", "HashiVaultValueError"} ->
         /\ Terminate(fail_json(<<outcome>>, "auth"))
         /\ UNCHANGED authenticated
    [] OTHER ->
         /\ Terminate(Unhandled(outcome, "auth"))
         /\ UNCHANGED authenticated

\* What the mount point argument of a database call resolves to in hvac.
MountOf(mount_point) == IF mount_point = None THEN DEFAULT_MOUNT_POINT ELSE mount_point

Request(op, mount_point, name) == [op |-> op, mount_point |-> MountOf(mount_point), name |-> name]

\* The call is sent and Vault either rejects it (hvac raises) or answers.
Remote(req, applied) ==
  /\ requests' = Append(requests, req)
  /\ pc' = "handle"
  /\ \/ /\ raised' \in RemoteExceptions
        /\ raw' = NoneValue
        /\ UNCHANGED server
     \/ /\ raised' = "none"
        /\ raw' \in RawValues
        /\ server' = applied
  /\ UNCHANGED <<authenticated, auth_outcome, results, unhandled>>
  /\ UNCHANGED env

\* ------------------------------------------------------------------------
\* vault_database_connection_configure

vault_database_connection_configure_start ==
  /\ module = ConfigureModule
  /\ pc = "start"
  /\ ImportCheck("authenticate")
  /\ UNCHANGED <<authenticated, auth_outcome, requests, raised, raw, server>>
  /\ UNCHANGED env

vault_database_connection_configure_authenticate ==
  /\ module = ConfigureModule
  /\ pc = "authenticate"
  /\ \E outcome \in AuthOutcomes : Authenticate(outcome) /\ auth_outcome' = outcome
  /\ UNCHANGED <<requests, raised, raw, server>>
  /\ UNCHANGED env

\* raw = client.secrets.database.configure(name=..., password=..., mount_point=path)
vault_database_connection_configure_call ==
  /\ module = ConfigureModule
  /\ pc = "call"
  /\ Remote(Request("configure", params.path, params.connection_name),
            [server EXCEPT !.connections[params.path] = params.connection_password])

\* Mutation of ConfigureOutcome: the success result echoes the request,
\* connection_password included.
ConfigureOutcomeEchoingPassword(exc, r, p) ==
  IF exc = "Forbidden"
  THEN FailFormatted(
         Format(<<"Forbidden: Permission Denied to path ['", "%s", "'].">>, <<p.path>>),
         "Forbidden")
  ELSE IF exc = "InvalidPath"
  THEN FailFormatted(
         Format(<<"Invalid or missing path ['", "%s", "']. Check the path.">>, <<p.path>>),
         "InvalidPath")
  ELSE IF exc # "none" THEN Unhandled(exc, "call")
  ELSE IF ~HasStatus(r) THEN Unhandled("AttributeError", "status")
  ELSE IF r.status_code \notin {200, 204}
  THEN FailFormatted(
         Format(<<"Failed to create connection. Status code: ", "%s">>,
                <<IntToStr(r.status_code)>>),
         "status")
  ELSE exit_json({<<"status", Quote("success")>>,
                  <<"status_code", IntToStr(r.status_code)>>,
                  <<"ok", JsonBool(r.status_code < 400)>>,
                  <<"connection_password", Quote(p.connection_password)>>},
                 Absent, TRUE, "success")

\* The except handlers and the status check of connection configure.
ConfigureOutcome(exc, r, p) ==
  IF exc = "Forbidden"
  THEN FailFormatted(
         Format(<<"Forbidden: Permission Denied to path ['", "%s", "'].">>, <<p.path>>),
         "Forbidden")
  ELSE IF exc = "InvalidPath"
  THEN FailFormatted(
         Format(<<"Invalid or missing path ['", "%s", "']. Check the path.">>, <<p.path>>),
         "InvalidPath")
  ELSE IF exc # "none" THEN Unhandled(exc, "call")
  ELSE IF ~HasStatus(r) THEN Unhandled("AttributeError", "status")
  ELSE IF r.status_code \notin {200, 204}
  THEN FailFormatted(
         Format(<<"Failed to create connection. Status code: ", "%s">>,
                <<IntToStr(r.status_code)>>),
         "status")
  ELSE exit_json({<<"status", Quote("success")>>,
                  <<"status_code", IntToStr(r.status_code)>>,
                  <<"ok", JsonBool(r.status_code < 400)>>},
                 Absent, TRUE, "success")

\* Mutation of vault_database_connection_configure_finish: a rejected call is
\* sent again instead of being reported.
vault_database_connection_configure_finish_retrying ==
  /\ module = ConfigureModule
  /\ pc = "handle"
  /\ IF raised # "none"
     THEN pc' = "call" /\ UNCHANGED <<results, unhandled>>
     ELSE Terminate(ConfigureOutcome(raised, raw, params))
  /\ UNCHANGED <<authenticated, auth_outcome, requests, raised, raw, server>>
  /\ UNCHANGED env

vault_database_connection_configure_finish ==
  /\ module = ConfigureModule
  /\ pc = "handle"
  /\ Terminate(ConfigureOutcome(raised, raw, params))
  /\ UNCHANGED <<authenticated, auth_outcome, requests, raised, raw, server>>
  /\ UNCHANGED env

\* ------------------------------------------------------------------------
\* vault_database_connection_read

vault_database_connection_read_start ==
  /\ module = ConnectionReadModule
  /\ pc = "start"
  /\ ImportCheck("authenticate")
  /\ UNCHANGED <<authenticated, auth_outcome, requests, raised, raw, server>>
  /\ UNCHANGED env

vault_database_connection_read_authenticate ==
  /\ module = ConnectionReadModule
  /\ pc = "authenticate"
  /\ \E outcome \in AuthOutcomes : Authenticate(outcome) /\ auth_outcome' = outcome
  /\ UNCHANGED <<requests, raised, raw, server>>
  /\ UNCHANGED env

\* Mutation of vault_database_connection_read_call: the read path sends the
\* configure write.
vault_database_connection_read_call_writing ==
  /\ module = ConnectionReadModule
  /\ pc = "call"
  /\ Remote(Request("configure", params.path, params.connection_name),
            [server EXCEPT !.connections[params.path] = "SomePass"])

\* raw = client.secrets.database.read_connection(name=connection_name, mount_point=path)
vault_database_connection_read_call ==
  /\ module = ConnectionReadModule
  /\ pc = "call"
  /\ Remote(Request("read_connection", params.path, params.connection_name), server)

\* The except handlers of connection read, then data = raw['data'].
ConnectionReadOutcome(exc, r, p) ==
  IF exc = "Forbidden"
  THEN FailFormatted(
         Format(<<"Forbidden: Permission Denied to path ['", "%s", "'].">>, <<p.path>>),
         "Forbidden")
  ELSE IF exc = "InvalidPath"
  THEN FailFormatted(
         Format(<<"Invalid or missing path ['", "%s", "'] with secret version '", "%s",
                  "'. Check the path.">>, <<p.path>>),
         "InvalidPath")
  ELSE IF exc # "none" THEN Unhandled(exc, "call")
  ELSE IF SubscriptData(r) # "none" THEN Unhandled(SubscriptData(r), "data")
  ELSE exit_json({<<"data", "raw['data']">>}, r, FALSE, "success")

vault_database_connection_read_finish ==
  /\ module = ConnectionReadModule
  /\ pc = "handle"
  /\ Terminate(ConnectionReadOutcome(raised, raw, params))
  /\ UNCHANGED <<authenticated, auth_outcome, requests, raised, raw, server>>
  /\ UNCHANGED env

\* ------------------------------------------------------------------------
\* vault_database_rotate_root_credentials

vault_database_rotate_root_credentials_start ==
  /\ module = RotateModule
  /\ pc = "start"
  /\ ImportCheck("authenticate")
  /\ UNCHANGED <<authenticated, auth_outcome, requests, raised, raw, server>>
  /\ UNCHANGED env

vault_database_rotate_root_credentials_authenticate ==
  /\ module = RotateModule
  /\ pc = "authenticate"
  /\ \E outcome \in AuthOutcomes : Authenticate(outcome) /\ auth_outcome' = outcome
  /\ UNCHANGED <<requests, raised, raw, server>>
  /\ UNCHANGED env

\* raw = client.secrets.database.rotate_root_credentials(**parameters); a client
\* without the method raises AttributeError before anything is sent.
vault_database_rotate_root_credentials_call ==
  /\ module = RotateModule
  /\ pc = "call"
  /\ IF has_rotate
     THEN Remote(Request("rotate_root_credentials", params.engine_mount_point,
                         params.connection_name),
                 [server EXCEPT !.rotated = @ \cup {MountOf(params.engine_mount_point)}])
     ELSE /\ raised' = "AttributeError"
          /\ pc' = "handle"
          /\ UNCHANGED <<authenticated, auth_outcome, requests, raw, results, unhandled, server>>
          /\ UNCHANGED env

\* Mutation of RotateOutcome: there is no except AttributeError clause, as in
\* the other modules, so the missing capability propagates.
RotateOutcomeWithoutCapabilityHandler(exc, r, p) ==
  IF exc = "Forbidden"
  THEN FailFormatted(
         Format(<<"Forbidden: Permission Denied to path ['", "%s", "'].">>,
                <<p.engine_mount_point>>),
         "Forbidden")
  ELSE IF exc = "InvalidPath"
  THEN FailFormatted(
         Format(<<"Invalid or missing path ['", "%s", "']">>, <<p.engine_mount_point>>),
         "InvalidPath")
  ELSE IF exc # "none" THEN Unhandled(exc, "call")
  ELSE IF ~HasStatus(r) THEN Unhandled("AttributeError", "status")
  ELSE IF r.status_code \notin {200, 204}
  THEN FailFormatted(
         Format(<<"Failed to create connection. Status code: ", "%s">>,
                <<IntToStr(r.status_code)>>),
         "status")
  ELSE exit_json({<<"status", Quote("success")>>,
                  <<"status_code", IntToStr(r.status_code)>>,
                  <<"ok", JsonBool(r.status_code < 400)>>},
                 Absent, TRUE, "success")

\* The except handlers and the status check of rotate root credentials.
RotateOutcome(exc, r, p) ==
  IF exc = "AttributeError"
  THEN fail_json(<<"hvac>=2.0.0 is required">>, "AttributeError")
  ELSE IF exc = "Forbidden"
  THEN FailFormatted(
         Format(<<"Forbidden: Permission Denied to path ['", "%s", "'].">>,
                <<p.engine_mount_point>>),
         "Forbidden")
  ELSE IF exc = "InvalidPath"
  THEN FailFormatted(
         Format(<<"Invalid or missing path ['", "%s", "']">>, <<p.engine_mount_point>>),
         "InvalidPath")
  ELSE IF exc # "none" THEN Unhandled(exc, "call")
  ELSE IF ~HasStatus(r) THEN Unhandled("AttributeError", "status")
  ELSE IF r.status_code \notin {200, 204}
  THEN FailFormatted(
         Format(<<"Failed to create connection. Status code: ", "%s">>,
                <<IntToStr(r.status_code)>>),
         "status")
  ELSE exit_json({<<"status", Quote("success")>>,
                  <<"status_code", IntToStr(r.status_code)>>,
                  <<"ok", JsonBool(r.status_code < 400)>>},
                 Absent, TRUE, "success")

vault_database_rotate_root_credentials_finish ==
  /\ module = RotateModule
  /\ pc = "handle"
  /\ Terminate(RotateOutcome(raised, raw, params))
  /\ UNCHANGED <<authenticated, auth_outcome, requests, raised, raw, server>>
  /\ UNCHANGED env

\* ------------------------------------------------------------------------
\* vault_database_static_role_create

\* The result the module returns in check mode.
SampleData ==
  {<<"status", Quote("success")>>, <<"status_code", Quote("204")>>, <<"ok", JsonBool(TRUE)>>}

\* Mutation of RunsOperation: check mode is not consulted and the write always runs.
RunsOperationIgnoringCheckMode(cm) == TRUE

\* if module.check_mode == False:
RunsOperation(cm) == cm = FALSE

\* Lines 160-166 and 220-227: the import check, then either the operation or,
\* in check mode, the sample result.
vault_database_static_role_create_start ==
  /\ module = RoleCreateModule
  /\ pc = "start"
  /\ IF ~HAS_HVAC
     THEN Terminate(fail_json(missing_required_lib("hvac"), "import"))
     ELSE IF RunsOperation(check_mode)
     THEN pc' = "authenticate" /\ UNCHANGED <<results, unhandled>>
     ELSE Terminate(exit_json(SampleData, Absent, TRUE, "sample"))
  /\ UNCHANGED <<authenticated, auth_outcome, requests, raised, raw, server>>
  /\ UNCHANGED env

vault_database_static_role_create_authenticate ==
  /\ module = RoleCreateModule
  /\ pc = "authenticate"
  /\ \E outcome \in AuthOutcomes : Authenticate(outcome) /\ auth_outcome' = outcome
  /\ UNCHANGED <<requests, raised, raw, server>>
  /\ UNCHANGED env

\* raw = client.secrets.database.create_static_role(**parameters)
vault_database_static_role_create_call ==
  /\ module = RoleCreateModule
  /\ pc = "call"
  /\ Remote(Request("create_static_role", params.engine_mount_point, params.role_name),
            [server EXCEPT !.roles = @ \cup {MountOf(params.engine_mount_point)}])

\* Mutation of RoleCreateOutcome: InvalidRequest is reported by the InvalidPath
\* handler (except (InvalidPath, InvalidRequest)), with the InvalidPath message.
RoleCreateOutcomeMergingInvalidRequest(exc, r, p) ==
  IF exc = "Forbidden"
  THEN LET f == Format(<<"Forbidden: Permission Denied to path ['", "%s", "'].">>,
                       <<p.engine_mount_point>>)
       IN  FailFormatted([f EXCEPT !.text = OrText(@, "database")], "Forbidden")
  ELSE IF exc \in {"InvalidPath", "InvalidRequest"}
  THEN FailFormatted(
         Format(<<"Invalid or missing path ['", "%s", "'/static-roles/'", "%s", "'].">>,
                <<OrValue(p.engine_mount_point, "database"), p.role_name>>),
         "InvalidPath")
  ELSE IF exc # "none" THEN Unhandled(exc, "call")
  ELSE IF ~Truthy(r) THEN Unhandled("UnboundLocalError", "raw_res")
  ELSE exit_json({<<"status", Quote("success")>>},
                 IF r.type = "Response" THEN Text(r) ELSE r, TRUE, "success")

\* The except handlers of static role create, then raw_res and the success exit.
RoleCreateOutcome(exc, r, p) ==
  IF exc = "Forbidden"
  THEN LET f == Format(<<"Forbidden: Permission Denied to path ['", "%s", "'].">>,
                       <<p.engine_mount_point>>)
       IN  FailFormatted([f EXCEPT !.text = OrText(@, "database")], "Forbidden")
  ELSE IF exc = "InvalidPath"
  THEN FailFormatted(
         Format(<<"Invalid or missing path ['", "%s", "'/static-roles/'", "%s", "'].">>,
                <<OrValue(p.engine_mount_point, "database"), p.role_name>>),
         "InvalidPath")
  ELSE IF exc = "InvalidRequest"
  THEN FailFormatted(
         Format(<<"Cannot update static role ['", "%s", "'/static-roles/'", "%s",
                  "']. Please verify that the user exists on the database.">>,
                <<OrValue(p.engine_mount_point, "database"), p.role_name>>),
         "InvalidRequest")
  ELSE IF exc # "none" THEN Unhandled(exc, "call")
  ELSE IF ~Truthy(r) THEN Unhandled("UnboundLocalError", "raw_res")
  ELSE exit_json({<<"status", Quote("success")>>},
                 IF r.type = "Response" THEN Text(r) ELSE r, TRUE, "success")

vault_database_static_role_create_finish ==
  /\ module = RoleCreateModule
  /\ pc = "handle"
  /\ Terminate(RoleCreateOutcome(raised, raw, params))
  /\ UNCHANGED <<authenticated, auth_outcome, requests, raised, raw, server>>
  /\ UNCHANGED env

\* ------------------------------------------------------------------------
\* vault_database_static_role_read

vault_database_static_role_read_start ==
  /\ module = RoleReadModule
  /\ pc = "start"
  /\ ImportCheck("authenticate")
  /\ UNCHANGED <<authenticated, auth_outcome, requests, raised, raw, server>>
  /\ UNCHANGED env

vault_database_static_role_read_authenticate ==
  /\ module = RoleReadModule
  /\ pc = "authenticate"
  /\ \E outcome \in AuthOutcomes : Authenticate(outcome) /\ auth_outcome' = outcome
  /\ UNCHANGED <<requests, raised, raw, server>>
  /\ UNCHANGED env

\* raw = client.secrets.database.read_static_role(name=role_name, mount_point=path)
vault_database_static_role_read_call ==
  /\ module = RoleReadModule
  /\ pc = "call"
  /\ Remote(Request("read_static_role", params.path, params.role_name), server)

\* The except handlers of static role read, then data = raw['data'].
RoleReadOutcome(exc, r, p) ==
  IF exc = "Forbidden"
  THEN FailFormatted(
         Format(<<"Forbidden: Permission Denied to path ['", "%s", "'].">>, <<p.path>>),
         "Forbidden")
  ELSE IF exc = "InvalidPath"
  THEN FailFormatted(
         Format(<<"Invalid or missing path ['", "%s", "']. Check the path.">>, <<p.path>>),
         "InvalidPath")
  ELSE IF exc # "none" THEN Unhandled(exc, "call")
  ELSE IF SubscriptData(r) # "none" THEN Unhandled(SubscriptData(r), "data")
  ELSE exit_json({<<"data", "raw['data']">>}, r, FALSE, "success")

vault_database_static_role_read_finish ==
  /\ module = RoleReadModule
  /\ pc = "handle"
  /\ Terminate(RoleReadOutcome(raised, raw, params))
  /\ UNCHANGED <<authenticated, auth_outcome, requests, raised, raw, server>>
  /\ UNCHANGED env

\* ------------------------------------------------------------------------

Next ==
  \/ Invoke
  \/ vault_database_connection_configure_start
  \/ vault_database_connection_configure_authenticate
  \/ vault_database_connection_configure_call
  \/ vault_database_connection_configure_finish
  \/ vault_database_connection_read_start
  \/ vault_database_connection_read_authenticate
  \/ vault_database_connection_read_call
  \/ vault_database_connection_read_finish
  \/ vault_database_rotate_root_credentials_start
  \/ vault_database_rotate_root_credentials_authenticate
  \/ vault_database_rotate_root_credentials_call
  \/ vault_database_rotate_root_credentials_finish
  \/ vault_database_static_role_create_start
  \/ vault_database_static_role_create_authenticate
  \/ vault_database_static_role_create_call
  \/ vault_database_static_role_create_finish
  \/ vault_database_static_role_read_start
  \/ vault_database_static_role_read_authenticate
  \/ vault_database_static_role_read_call
  \/ vault_database_static_role_read_finish

Spec == Init /\ [][Next]_vars

\* Connection configure run repeatedly, each run keeping the one before it.
NextConfigure ==
  \/ InvokeConfigure
  \/ vault_database_connection_configure_start
  \/ vault_database_connection_configure_authenticate
  \/ vault_database_connection_configure_call
  \/ vault_database_connection_configure_finish

SpecConfigure == Init /\ [][NextConfigure]_vars

\* ------------------------------------------------------------------------
\* Properties

\* run_module has ended, with a result or with an exception.
Ended == pc \in {"exited", "crashed"}

\* The database call of this invocation was sent and returned without raising.
Returned == Ended /\ requests # <<>> /\ raised = "none"

\* The one result of an invocation that emitted exactly one.
OneResult(kind) == pc = "exited" /\ Len(results) = 1 /\ results[1].kind = kind

Contains(msg, piece) == \E i \in DOMAIN msg : msg[i] = piece

ReadOps == {"read_connection", "read_static_role"}

\* C1: when the database call returns without raising and a status it
\* carries is 200 or 204, the module emits a success whose changed flag is
\* True for the write modules and False for the read modules.
C1_SuccessChangedFlag ==
  (Returned /\ (HasStatus(raw) => raw.status_code \in {200, 204}))
    => /\ OneResult("exit_json")
       /\ results[1].changed = (module \in WriteModules)

\* C2: when the database call raises Forbidden, the invocation ends in a
\* failure whose message contains the mount point the request was sent to.
C2_ForbiddenNamesMount ==
  (Ended /\ raised = "Forbidden")
    => /\ OneResult("fail_json")
       /\ Contains(results[1].msg, requests[1].mount_point)

\* C3: when the database call raises InvalidPath, the handler produces a
\* failure whose message contains the requested path, for static role read
\* exactly "Invalid or missing path ['<path>']. Check the path.", and raises
\* no further exception.
C3_InvalidPathNamesPath ==
  (Ended /\ raised = "InvalidPath")
    => /\ OneResult("fail_json")
       /\ Contains(results[1].msg, requests[1].mount_point)
       /\ module = RoleReadModule =>
            results[1].msg =
              <<"Invalid or missing path ['", params.path, "']. Check the path.">>

\* C4: in check mode, connection configure and rotate root credentials never
\* call the remote write and return an empty response.
C4_CheckModeSkipsWrite ==
  (module \in {ConfigureModule, RotateModule} /\ check_mode)
    => /\ requests = <<>>
       /\ (Ended /\ HAS_HVAC) => (OneResult("exit_json") /\ results[1].data = {})

\* C5 as stated: in check mode static role create never calls
\* create_static_role and ends with the sample success result; outside check
\* mode the sample result is never emitted.
C5_CheckModeSample_Original ==
  /\ (module = RoleCreateModule /\ check_mode) =>
       /\ requests = <<>>
       /\ Ended => (OneResult("exit_json") /\ results[1].data = SampleData)
  /\ (module = RoleCreateModule /\ ~check_mode) =>
       \A i \in DOMAIN results : results[i].site # "sample"

\* C5 amended: in check mode static role create never calls
\* create_static_role; with hvac importable it ends with the sample success
\* result (changed=True), without hvac it ends with the missing-library
\* failure; outside check mode the sample result is never emitted.
C5_CheckModeSample ==
  /\ (module = RoleCreateModule /\ check_mode) =>
       /\ requests = <<>>
       /\ ~authenticated
       /\ (Ended /\ HAS_HVAC) =>
            /\ OneResult("exit_json")
            /\ results[1].data = SampleData
            /\ results[1].changed
       /\ (Ended /\ ~HAS_HVAC) =>
            /\ OneResult("fail_json")
            /\ results[1].msg = missing_required_lib("hvac")
  /\ (module = RoleCreateModule /\ ~check_mode) =>
       \A i \in DOMAIN results :
         results[i].site # "sample" /\ results[i].data # SampleData

\* Static role create ran in check mode with hvac present and has ended.
C5_Witness ==
  module = RoleCreateModule /\ check_mode /\ HAS_HVAC /\ pc = "exited"

\* C6: when a write module's call returns a response whose status code is
\* neither 200 nor 204, the invocation ends in a failure whose message
\* includes that status code.
C6_BadStatusFails ==
  (Returned /\ module \in WriteModules /\ HasStatus(raw)
     /\ raw.status_code \notin {200, 204})
    => /\ OneResult("fail_json")
       /\ Contains(results[1].msg, IntToStr(raw.status_code))

\* C7: a step of a read module never changes the server's connection and
\* static role configuration, and a read module sends no write operation.
C7_ReadsLeaveServerUnchanged ==
  [][/\ module \in ReadModules => server' = server
     /\ module' \in ReadModules =>
          \A i \in DOMAIN requests' : requests'[i].op \in ReadOps]_vars

\* A read module's call returned against a server that holds configuration.
C7_Witness ==
  module \in ReadModules /\ Returned /\ server # NoServer

\* C8: every invocation that has ended produced exactly one result, a
\* success via exit_json or a failure via fail_json.
C8_ExactlyOneResult ==
  Ended => (pc = "exited" /\ Len(results) = 1)

\* C9: an invocation sends at most one database operation; a rejected call
\* is not sent again.
C9_AtMostOneRequest ==
  Len(requests) <= 1

\* An invocation whose one call was rejected has ended.
C9_Witness ==
  Ended /\ raised \in RemoteExceptions /\ Len(requests) = 1

\* C10 as stated: the database operation is sent only after validate and
\* authenticate completed, and a success is emitted only after
\* authentication and the database operation.
C10_LinearOrder_Original ==
  /\ requests # <<>> => authenticated
  /\ \A i \in DOMAIN results :
       results[i].kind = "exit_json" => (authenticated /\ requests # <<>>)

\* C10 amended: the database operation is sent only after validate and
\* authenticate completed, and a result is emitted only as the last step; a
\* success follows authentication and one database operation that returned,
\* except in static role create in check mode, whose sample success is
\* emitted without authenticating and without a database operation.
C10_LinearOrder ==
  /\ requests # <<>> => authenticated
  /\ pc = "call" => authenticated
  /\ results # <<>> => pc = "exited"
  /\ \A i \in DOMAIN results :
       results[i].kind = "exit_json" =>
         \/ authenticated /\ Len(requests) = 1 /\ raised = "none"
         \/ /\ module = RoleCreateModule /\ check_mode
            /\ results[i].site = "sample"
            /\ ~authenticated /\ requests = <<>>

\* A success that followed authentication and a database operation.
C10_Witness ==
  OneResult("exit_json") /\ authenticated /\ Len(requests) = 1

\* C11: in rotate root credentials, a client without the rotation capability
\* (AttributeError) ends the invocation in a failure whose message is
\* "hvac>=2.0.0 is required", which differs from the Forbidden and the
\* InvalidPath message for every engine_mount_point.
C11_CapabilityMessageDistinct ==
  (module = RotateModule /\ Ended /\ raised = "AttributeError")
    => /\ OneResult("fail_json")
       /\ results[1].msg = <<"hvac>=2.0.0 is required">>
       /\ \A p \in ParamsOf(RotateModule) :
            \A exc \in {"Forbidden", "InvalidPath"} :
              LET other == RotateOutcome(exc, raw, p)
              IN  other.kind = "fail_json" /\ other.msg # results[1].msg

\* Rotate ran against a client without rotate_root_credentials and has ended.
C11_Witness ==
  module = RotateModule /\ ~has_rotate /\ raised = "AttributeError" /\ Ended

\* C12: in static role create outside check mode, InvalidRequest ends the
\* invocation in a failure whose message contains the mount point in effect
\* and the role name, and differs from the InvalidPath message for the same
\* parameters.
C12_InvalidRequestMessage ==
  (module = RoleCreateModule /\ ~check_mode /\ Ended /\ raised = "InvalidRequest")
    => /\ OneResult("fail_json")
       /\ Contains(results[1].msg, requests[1].mount_point)
       /\ Contains(results[1].msg, params.role_name)
       /\ results[1].msg # RoleCreateOutcome("InvalidPath", raw, params).msg

\* Static role create was rejected with InvalidRequest, engine_mount_point unset.
C12_Witness ==
  /\ module = RoleCreateModule /\ ~check_mode /\ Ended
  /\ raised = "InvalidRequest" /\ params.engine_mount_point = None

\* This run and the one before it are connection configure runs that were
\* given the same parameters up to connection_password, the same environment,
\* and met the same authentication and remote outcomes.
SameButPassword ==
  /\ module = ConfigureModule
  /\ previous.module = ConfigureModule
  /\ previous.pc \in {"exited", "crashed"}
  /\ [previous.params EXCEPT !.connection_password = params.connection_password] = params
  /\ previous.check_mode = check_mode
  /\ previous.HAS_HVAC = HAS_HVAC
  /\ previous.auth_outcome = auth_outcome
  /\ previous.raised = raised
  /\ previous.raw = raw

\* connection_password occurs in no field of the result.
PasswordFree(result, password) ==
  /\ ~Contains(result.msg, password)
  /\ \A member \in result.data : member[2] \notin {password, Quote(password)}

\* C13: two connection configure invocations that differ only in
\* connection_password and meet the same authentication and remote outcomes
\* end the same way with identical results (msg, data, changed), and the
\* password appears in no emitted field.
C13_ResultIndependentOfPassword ==
  (module = ConfigureModule /\ Ended)
    => /\ SameButPassword =>
            /\ previous.pc = pc
            /\ previous.results = results
            /\ previous.unhandled = unhandled
       /\ \A i \in DOMAIN results : PasswordFree(results[i], params.connection_password)

\* Two successful configure runs that differ in connection_password only.
C13_Witness ==
  /\ Ended /\ SameButPassword
  /\ previous.params.connection_password # params.connection_password
  /\ OneResult("exit_json")

\* No success result has been emitted in this invocation.
NoSuccess == \A i \in DOMAIN results : results[i].kind # "exit_json"

\* The database call returned a response whose status is neither 200 nor 204.
BadStatus ==
  /\ requests # <<>> /\ raised = "none" /\ pc \in {"handle", "exited", "crashed"}
  /\ HasStatus(raw) /\ raw.status_code \notin {200, 204}

\* C14: every failure is terminal.  After a missing hvac library or an
\* authentication error no database operation is sent; after an exception
\* from the database call or a non-200/204 status the operation is not sent
\* again; and in none of these cases is a success result emitted.  A failure
\* result is the last thing an invocation does.
C14_FailureIsTerminal ==
  /\ (module # None /\ (~HAS_HVAC \/ auth_outcome \notin {"none", "ok"}))
       => (requests = <<>> /\ NoSuccess)
  /\ (raised # "none" \/ BadStatus) => (Len(requests) <= 1 /\ NoSuccess)
  /\ (\E i \in DOMAIN results : results[i].kind = "fail_json")
       => (pc = "exited" /\ Len(results) = 1)

\* C15: in static role create outside check mode, whatever create_static_role
\* returns without raising (a Response, a non-empty mapping, an empty mapping
\* or None), the module emits a success with data.status = 'success',
\* raw = raw_res and changed = True; raw_res is never read unassigned.
C15_RawResAssigned ==
  (module = RoleCreateModule /\ ~check_mode /\ Returned)
    => /\ unhandled # "UnboundLocalError"
       /\ OneResult("exit_json")
       /\ <<"status", Quote("success")>> \in results[1].data
       /\ results[1].raw = (IF raw.type = "Response" THEN Text(raw) ELSE raw)
       /\ results[1].changed

\* C16: in static role create the Forbidden, InvalidPath and InvalidRequest
\* messages name the same mount point for the same parameters:
\* engine_mount_point when set, 'database' when unset; none names 'None'.
C16_SameMountInMessages ==
  (module = RoleCreateModule /\ Ended
     /\ raised \in {"Forbidden", "InvalidPath", "InvalidRequest"})
    => LET mount == IF params.engine_mount_point = None
                    THEN "database" ELSE params.engine_mount_point
       IN  /\ OneResult("fail_json")
           /\ Contains(results[1].msg, mount)
           /\ ~Contains(results[1].msg, "None")
           /\ \A exc \in {"Forbidden", "InvalidPath", "InvalidRequest"} :
                Contains(RoleCreateOutcome(exc, raw, params).msg, mount)

====
